---- MODULE Spec2Model ----
(***************************************************************************)
(* A model of PyQtThemeable/ThemeProvider.py: the ThemeProvider singleton  *)
(* (themes, base theme, current theme, observers), the Themeable mixin     *)
(* (style sheet, widget, refresh on theme change) and the colour helpers.  *)
(*                                                                         *)
(* A Python str is a sequence of one-character strings, so that parsing,   *)
(* formatting and the placeholder regular expression are computed and not  *)
(* assumed.  Python's None is a sentinel value of the same shape as the    *)
(* values it stands beside.                                                *)
(***************************************************************************)
EXTENDS Integers, Sequences, FiniteSets, TLC

VARIABLES
    instance,       \* ThemeProvider._instance: "None" or "created"
    base_theme,     \* the instance attribute base_theme (absent until addBase)
    themes,         \* the dict themes, as its items in insertion order
    current_theme,  \* the Theme object current_theme refers to, or NoTheme
    observers,      \* ThemeProvider._observers: the bound callbacks, by binding
    bindings,       \* the Themeable objects ever built: style_sheet and widget
    widgets,        \* the widgets: the applied style sheet, and whether deleted
    lastCall,       \* history: the last call and how it ended
    notified,       \* history: the callbacks invoked during the last call
    replaced,       \* history: bindings whose style_sheet changed since their last refresh
    refreshFailed,  \* history: some getThemeStyle/onThemeChange has raised so far
    built,          \* history: the bindings whose construction returned normally
    origin,         \* history: for each live Theme object, addTheme's argument and the base
    call            \* a call of a function of the module: its arguments, what it returned

vars == <<instance, base_theme, themes, current_theme, observers, bindings,
          widgets, lastCall, notified, replaced, refreshFailed, built, origin,
          call>>

----------------------------------------------------------------------------
(* Bounds of the model. *)

\* Themeable objects built in one run (the observer list only grows).
MaxBindings == 2

----------------------------------------------------------------------------
(* Strings. *)

Str_black == <<"#", "0", "0", "0", "0", "0", "0">>
Str_white == <<"#", "f", "f", "f", "f", "f", "f">>
Str_grey  == <<"#", "2", "2", "2", "2", "2", "2">>
Str_red   == <<"r", "e", "d">>
Key_bg    == <<"b", "g">>
Key_fg    == <<"f", "g">>
Key_zz    == <<"z", "z">>

\* None, where a str is expected (one element that is no character).
NoneStr == <<"None">>

HexDigits == <<"0", "1", "2", "3", "4", "5", "6", "7", "8", "9",
               "a", "b", "c", "d", "e", "f">>
UpperHex  == <<"A", "B", "C", "D", "E", "F">>
DecDigits == {"0", "1", "2", "3", "4", "5", "6", "7", "8", "9"}
Letters   == {"a", "b", "c", "d", "e", "f", "g", "h", "i", "j", "k", "l", "m",
              "n", "o", "p", "q", "r", "s", "t", "u", "v", "w", "x", "y", "z",
              "A", "B", "C", "D", "E", "F"}

\* \w of the regular expression: letters, digits, underscore.
WordChars == Letters \cup DecDigits \cup {"_"}

IsWordChar(ch) == ch \in WordChars

\* The value of each hexadecimal digit, either case.
HexTable ==
    [ch \in {HexDigits[i] : i \in 1..16} \cup {UpperHex[i] : i \in 1..6} |->
        IF \E i \in 1..16 : HexDigits[i] = ch
        THEN (CHOOSE i \in 1..16 : HexDigits[i] = ch) - 1
        ELSE (CHOOSE i \in 1..6 : UpperHex[i] = ch) + 9]

IsHexChar(ch) == ch \in DOMAIN HexTable

HexValue(ch) == HexTable[ch]

\* s[a:b] of Python, 0-based and cut at the end of s.
Slice(s, a, b) ==
    LET hi == IF b < Len(s) THEN b ELSE Len(s)
    IN  IF a >= hi THEN <<>> ELSE SubSeq(s, a + 1, hi)

\* s.lstrip('#'): every leading '#' goes.
RECURSIVE LStripHash(_)
LStripHash(s) ==
    IF s # <<>> /\ Head(s) = "#" THEN LStripHash(Tail(s)) ELSE s

\* int(s, 16) on a slice of at most two characters: surrounding blanks and a
\* sign are accepted, an empty digit string is not.
IntBase16(s) ==
    CASE Len(s) = 2 /\ IsHexChar(s[1]) /\ IsHexChar(s[2]) ->
            [ok |-> TRUE, val |-> 16 * HexValue(s[1]) + HexValue(s[2])]
      [] Len(s) = 2 /\ s[1] \in {" ", "+"} /\ IsHexChar(s[2]) ->
            [ok |-> TRUE, val |-> HexValue(s[2])]
      [] Len(s) = 2 /\ s[1] = "-" /\ IsHexChar(s[2]) ->
            [ok |-> TRUE, val |-> 0 - HexValue(s[2])]
      [] Len(s) = 2 /\ IsHexChar(s[1]) /\ s[2] = " " ->
            [ok |-> TRUE, val |-> HexValue(s[1])]
      [] Len(s) = 1 /\ IsHexChar(s[1]) ->
            [ok |-> TRUE, val |-> HexValue(s[1])]
      [] OTHER -> [ok |-> FALSE, val |-> 0]

\* hex_to_rgb: the three two-character slices of the stripped string.
hex_to_rgb(hex_color) ==
    LET h == LStripHash(hex_color)
        r == IntBase16(Slice(h, 0, 2))
        g == IntBase16(Slice(h, 2, 4))
        b == IntBase16(Slice(h, 4, 6))
    IN  IF r.ok /\ g.ok /\ b.ok
        THEN [ok |-> TRUE, val |-> <<r.val, g.val, b.val>>, exc |-> "none"]
        ELSE [ok |-> FALSE, val |-> <<>>, exc |-> "ValueError"]

\* The digits of n >= 0 in lowercase hexadecimal.
RECURSIVE HexOf(_)
HexOf(n) ==
    IF n < 16 THEN <<HexDigits[n + 1]>>
    ELSE HexOf(n \div 16) \o <<HexDigits[(n % 16) + 1]>>

\* '{:02x}': at least two characters, zero-padded, the sign first.
Format02x(n) ==
    IF n < 0 THEN <<"-">> \o HexOf(0 - n)
    ELSE IF n < 16 THEN <<"0">> \o HexOf(n)
    ELSE HexOf(n)

rgb_to_hex(rgb_color) ==
    <<"#">> \o Format02x(rgb_color[1]) \o Format02x(rgb_color[2])
            \o Format02x(rgb_color[3])

\* A darkening without max(..., 0).
DarkenChannel_noFloor(c, factor) ==
    LET n == c * (1000 - factor)
    IN  IF n < 0 THEN 0 - ((0 - n) \div 1000) ELSE n \div 1000

\* int(c * (1 - factor/1000)): int() cuts towards zero.  The product is
\* computed here in exact arithmetic, which is what the float expression
\* yields for every channel in -255..255 when factor is 0, 500, 1000, 1500 or
\* 2000 (the factors of this model); for other factors the two can differ by
\* one (factor 900, channel 10: 0 and not 1).
DarkenChannel(c, factor) ==
    LET n == c * (1000 - factor)
        t == IF n < 0 THEN 0 - ((0 - n) \div 1000) ELSE n \div 1000
    IN  IF t > 0 THEN t ELSE 0

modifyColor(hex_color, factor) ==
    LET rgb == hex_to_rgb(hex_color)
    IN  IF ~rgb.ok THEN [ok |-> FALSE, val |-> <<>>, exc |-> rgb.exc]
        ELSE [ok |-> TRUE,
              val |-> rgb_to_hex(<<DarkenChannel(rgb.val[1], factor),
                                   DarkenChannel(rgb.val[2], factor),
                                   DarkenChannel(rgb.val[3], factor)>>),
              exc |-> "none"]

----------------------------------------------------------------------------
(* Theme objects and dicts. *)

EmptyDict == [k \in {} |-> <<>>]

\* A merge in which the first dict wins.
DictMerge_firstWins(a, b) ==
    [k \in (DOMAIN a) \cup (DOMAIN b) |-> IF k \in DOMAIN a THEN a[k] ELSE b[k]]

\* {**a, **b}
DictMerge(a, b) ==
    [k \in (DOMAIN a) \cup (DOMAIN b) |-> IF k \in DOMAIN b THEN b[k] ELSE a[k]]

\* d.get(key, default)
DictGet(d, key, default) == IF key \in DOMAIN d THEN d[key] ELSE default

\* Theme(name, theme_obj); name and id together are the object's identity.
Theme(id, name, theme_obj) == [id |-> id, name |-> name, theme_obj |-> theme_obj]

\* current_theme = None
NoTheme == [id |-> 0, name |-> "None", theme_obj |-> EmptyDict]

\* No modifier given (modifier = None).
NoModifier == 0 - 1

\* getAttr(key, modifier) against a given current theme: the except clause
\* turns the AttributeError of None.theme_obj into Exception("No Theme set");
\* a modifier of 0 is falsy and leaves the colour as stored.
getAttrOf(cur, key, modifier) ==
    IF cur = NoTheme
    THEN [ok |-> FALSE, val |-> <<>>, exc |-> "No Theme set"]
    ELSE LET attr == DictGet(cur.theme_obj, key, Str_black)
         IN  IF modifier # NoModifier /\ modifier # 0
             THEN modifyColor(attr, modifier)
             ELSE [ok |-> TRUE, val |-> attr, exc |-> "none"]

----------------------------------------------------------------------------
(* Placeholders: re.sub(r'theme\.(\w+)(\[\d+\])?', replacer, style_sheet). *)

Str_theme_dot == <<"t", "h", "e", "m", "e", ".">>

\* The end (exclusive, 1-based) of the longest run of characters of s from
\* position i on that satisfy the test: i itself when there is none.
RECURSIVE WordEnd(_, _)
WordEnd(s, i) ==
    IF i <= Len(s) /\ IsWordChar(s[i]) THEN WordEnd(s, i + 1) ELSE i

RECURSIVE DigitsEnd(_, _)
DigitsEnd(s, i) ==
    IF i <= Len(s) /\ s[i] \in DecDigits THEN DigitsEnd(s, i + 1) ELSE i

\* int() of a string of decimal digits.
RECURSIVE ParseDecimal(_)
ParseDecimal(s) ==
    IF s = <<>> THEN 0
    ELSE 10 * ParseDecimal(SubSeq(s, 1, Len(s) - 1)) + HexValue(s[Len(s)])

NoMatch == [found |-> FALSE, attribute |-> <<>>, modifier |-> NoModifier,
            end |-> 0]

\* (\[\d+\])? after a word that ends before w1; d1 is where the digits end.
\* A bracket that does not hold digits only is not part of the match.
MatchModifier(s, w0, w1, d1) ==
    IF /\ w1 <= Len(s) /\ s[w1] = "["
       /\ d1 > w1 + 1
       /\ d1 <= Len(s) /\ s[d1] = "]"
    THEN [found |-> TRUE, attribute |-> SubSeq(s, w0, w1 - 1),
          modifier |-> ParseDecimal(SubSeq(s, w1 + 1, d1 - 1)), end |-> d1 + 1]
    ELSE [found |-> TRUE, attribute |-> SubSeq(s, w0, w1 - 1),
          modifier |-> NoModifier, end |-> w1]

\* (\w+) from w0 on; w1 is where the word characters end.
MatchWord(s, w0, w1) ==
    IF w1 > w0 THEN MatchModifier(s, w0, w1, DigitsEnd(s, w1 + 1)) ELSE NoMatch

\* The match of the pattern that starts at position i of s, if there is one:
\* its attribute, its modifier and the position after it.
MatchAt(s, i) ==
    IF /\ i + 5 <= Len(s) /\ s[i] = "t"
       /\ SubSeq(s, i, i + 5) = Str_theme_dot
    THEN MatchWord(s, i + 6, WordEnd(s, i + 6))
    ELSE NoMatch

\* What re.sub puts in place of a match: replacer's getAttr.
Replacer(cur, m) == getAttrOf(cur, m.attribute, m.modifier)

\* A piece of the result before the rest of it; an exception in either wins,
\* the earlier first.
Joined(piece, rest) ==
    IF ~piece.ok THEN piece
    ELSE IF ~rest.ok THEN rest
    ELSE [ok |-> TRUE, val |-> piece.val \o rest.val, exc |-> "none"]

\* A replacement whose result is scanned again from its first character.
RECURSIVE ReplaceFrom(_, _, _)
ReplaceAt_rescan(cur, s, i, m) ==
    IF m.found
    THEN LET a == Replacer(cur, m)
         IN  IF ~a.ok THEN a
             ELSE ReplaceFrom(cur, a.val \o SubSeq(s, m.end, Len(s)), 1)
    ELSE Joined([ok |-> TRUE, val |-> <<s[i]>>, exc |-> "none"],
                ReplaceFrom(cur, s, i + 1))

\* _replacePlaceholders from position i on: one pass, left to right; a match
\* is replaced and the scan goes on after it, any other character is copied.
ReplaceAt(cur, s, i, m) ==
    IF m.found
    THEN LET a == Replacer(cur, m)
         IN  IF ~a.ok THEN a ELSE Joined(a, ReplaceFrom(cur, s, m.end))
    ELSE Joined([ok |-> TRUE, val |-> <<s[i]>>, exc |-> "none"],
                ReplaceFrom(cur, s, i + 1))

ReplaceFrom(cur, s, i) ==
    IF i > Len(s) THEN [ok |-> TRUE, val |-> <<>>, exc |-> "none"]
    ELSE ReplaceAt(cur, s, i, MatchAt(s, i))

replacePlaceholders(cur, style_sheet) == ReplaceFrom(cur, style_sheet, 1)

\* getThemeStyle of a binding whose style_sheet is given.
getThemeStyle(cur, style_sheet) ==
    IF style_sheet = NoneStr
    THEN [ok |-> FALSE, val |-> <<>>, exc |-> "No StyleSheet set"]
    ELSE replacePlaceholders(cur, style_sheet)

----------------------------------------------------------------------------
(* The inputs of the calls. *)

Names == {"light", "dark"}

Base_full == [k \in {Key_bg, Key_fg} |-> IF k = Key_bg THEN Str_white ELSE Str_grey]
Base_red  == [k \in {Key_fg} |-> Str_red]
Obj_bg    == [k \in {Key_bg} |-> Str_grey]
Obj_both  == [k \in {Key_bg, Key_fg} |-> IF k = Key_bg THEN Str_black ELSE Str_white]

BaseObjs  == {Base_full, Base_red}
ThemeArgs == {<<"light", Obj_bg>>, <<"dark", Obj_both>>}

CycleNames == {"light", "dark", "solarized"}
CycleArgs  == {<<"light", Obj_both>>, <<"dark", Obj_bg>>, <<"solarized", Obj_both>>}

Sheet_bg    == <<"c", ":">> \o Str_theme_dot \o Key_bg
Sheet_fgmod == Str_theme_dot \o Key_fg \o <<"[", "5", "0", "0", "]">>

StyleSheets == {Sheet_bg, Sheet_fgmod}

\* The keys looked up when a claim speaks of every key.
ProbeKeys == {Key_bg, Key_fg, Key_zz}

----------------------------------------------------------------------------
(* The registry. *)

\* A __new__ that sets up the themes dict at every call.
NewThemes_everyCall == <<>>

\* ThemeProvider(): __new__ builds the instance once, with an empty themes
\* dict and no current theme, and returns the one instance ever after.
NewThemes == IF instance = "None" THEN <<>> ELSE themes

NewCurrent == IF instance = "None" THEN NoTheme ELSE current_theme

\* name in d, d[name] and d[name] = value for an insertion-ordered dict.
HasKey(d, name) == \E i \in 1..Len(d) : d[i].key = name

Lookup(d, name) == d[CHOOSE i \in 1..Len(d) : d[i].key = name].value

\* An assignment that moves a key that is already there to the end.
DictSet_moveToEnd(d, name, value) ==
    Append(SelectSeq(d, LAMBDA e : e.key # name),
           [key |-> name, value |-> value])

DictSet(d, name, value) ==
    IF HasKey(d, name)
    THEN [i \in 1..Len(d) |-> IF d[i].key = name
                               THEN [key |-> name, value |-> value] ELSE d[i]]
    ELSE Append(d, [key |-> name, value |-> value])

\* list(d.keys())
Keys(d) == [i \in 1..Len(d) |-> d[i].key]

\* The Theme objects something refers to, each by its name and id.
LiveThemes(d, cur) ==
    {<<d[i].value.name, d[i].value.id>> : i \in 1..Len(d)}
        \cup (IF cur = NoTheme THEN {} ELSE {<<cur.name, cur.id>>})

\* The identity of a new Theme object called name: the id tells it from the
\* one other object of that name that can outlive the call, the current theme.
FreshId(cur, name) == IF cur.name = name /\ cur.id = 1 THEN 2 ELSE 1

\* The history of the Theme objects that are live after a step.
OriginAfter(d, cur, new) ==
    [t \in LiveThemes(d, cur) |-> IF t \in DOMAIN new THEN new[t] ELSE origin[t]]

\* widget.setStyleSheet(style) for a style that was computed: on a deleted
\* widget it raises RuntimeError.
setStyleSheet(ws, w, style) ==
    IF ~style.ok THEN [ok |-> FALSE, exc |-> style.exc, widgets |-> ws]
    ELSE IF ws[w].deleted
    THEN [ok |-> FALSE, exc |-> "RuntimeError", widgets |-> ws]
    ELSE [ok |-> TRUE, exc |-> "none",
          widgets |-> [ws EXCEPT ![w].styleSheet = style.val]]

\* onThemeChange of binding b: the style is computed first, then set.
onThemeChange(cur, bs, ws, b) ==
    setStyleSheet(ws, bs[b].widget, getThemeStyle(cur, bs[b].style_sheet))

\* notifyObservers from the i-th observer on: each callback in turn, the
\* first that raises ends the loop.
RECURSIVE NotifyFrom(_, _, _, _, _)
NotifyNext(cur, obs, bs, i, r) ==
    IF ~r.ok
    THEN [result |-> r.exc, widgets |-> r.widgets, notified |-> <<obs[i]>>,
          refreshed |-> {}]
    ELSE LET rest == NotifyFrom(cur, obs, bs, r.widgets, i + 1)
         IN  [result |-> rest.result, widgets |-> rest.widgets,
              notified |-> <<obs[i]>> \o rest.notified,
              refreshed |-> {obs[i]} \cup rest.refreshed]

NotifyFrom(cur, obs, bs, ws, i) ==
    IF i > Len(obs)
    THEN [result |-> "ok", widgets |-> ws, notified |-> <<>>, refreshed |-> {}]
    ELSE NotifyNext(cur, obs, bs, i, onThemeChange(cur, bs, ws, obs[i]))

\* A loop that starts at the second observer.
notifyObservers_skipFirst(cur, obs, bs, ws) == NotifyFrom(cur, obs, bs, ws, 2)

notifyObservers(cur, obs, bs, ws) == NotifyFrom(cur, obs, bs, ws, 1)

\* A step that does not go round: the last index stays.
NextIndex_noWrap(current_index, n) ==
    IF current_index = n THEN n ELSE current_index + 1

\* The index in the key list that incrementTheme moves to:
\* (current_index + 1) % len(themes), counted from 1 here.
NextIndex(current_index, n) == (current_index % n) + 1

\* No function has been called.
NoCall == [fn |-> "none"]

\* The registry before the first ThemeProvider().
RegistryInit ==
    /\ instance = "None"
    /\ base_theme = [set |-> FALSE, name |-> "_base_", theme_obj |-> EmptyDict]
    /\ themes = <<>>
    /\ current_theme = NoTheme
    /\ observers = <<>>
    /\ bindings = <<>>
    /\ widgets = <<>>
    /\ lastCall = [op |-> "none", result |-> "ok"]
    /\ notified = <<>>
    /\ replaced = {}
    /\ refreshFailed = FALSE
    /\ built = {}
    /\ origin = EmptyDict

Init == RegistryInit /\ call = NoCall

\* An addBase that also writes the new base into the themes already added.
addBase_retroactive(base_obj) ==
    /\ instance' = "created"
    /\ base_theme' = [set |-> TRUE, name |-> "_base_", theme_obj |-> base_obj]
    /\ themes' = [i \in 1..Len(NewThemes) |->
                     [NewThemes[i] EXCEPT !.value.theme_obj = DictMerge(@, base_obj)]]
    /\ current_theme' = NewCurrent
    /\ lastCall' = [op |-> "addBase", result |-> "ok"]
    /\ notified' = <<>>
    /\ UNCHANGED <<observers, bindings, widgets, replaced, refreshFailed, built,
                   origin, call>>

\* addBase(base_obj)
addBase(base_obj) ==
    /\ instance' = "created"
    /\ base_theme' = [set |-> TRUE, name |-> "_base_", theme_obj |-> base_obj]
    /\ themes' = NewThemes
    /\ current_theme' = NewCurrent
    /\ lastCall' = [op |-> "addBase", result |-> "ok"]
    /\ notified' = <<>>
    /\ UNCHANGED <<observers, bindings, widgets, replaced, refreshFailed, built,
                   origin, call>>

\* addTheme(name, theme_obj): reading base_theme before any addBase raises
\* AttributeError (the attribute is only annotated, never assigned).
addTheme(name, theme_obj) ==
    /\ instance' = "created"
    /\ current_theme' = NewCurrent
    /\ notified' = <<>>
    /\ IF ~base_theme.set
       THEN /\ themes' = NewThemes
            /\ origin' = origin
            /\ lastCall' = [op |-> "addTheme", result |-> "AttributeError"]
       ELSE LET id == FreshId(NewCurrent, name)
                merged == DictMerge(base_theme.theme_obj, theme_obj)
            IN  /\ themes' = DictSet(NewThemes, name, Theme(id, name, merged))
                /\ origin' = OriginAfter(themes', current_theme',
                                 [t \in {<<name, id>>} |->
                                     [arg |-> theme_obj,
                                      base |-> base_theme.theme_obj]])
                /\ lastCall' = [op |-> "addTheme", result |-> "ok"]
    /\ UNCHANGED <<base_theme, observers, bindings, widgets, replaced,
                   refreshFailed, built, call>>

\* A setTheme that reads themes.get(name): an unknown name makes None current
\* and the observers are notified all the same.
SetThemeAs_get(op, name) ==
    /\ instance' = "created"
    /\ themes' = NewThemes
    /\ \E cur \in {IF HasKey(NewThemes, name) THEN Lookup(NewThemes, name)
                   ELSE NoTheme} :
       \E n \in {notifyObservers(cur, observers, bindings, widgets)} :
           /\ current_theme' = cur
           /\ widgets' = n.widgets
           /\ notified' = n.notified
           /\ replaced' = replaced \ n.refreshed
           /\ refreshFailed' = (refreshFailed \/ n.result # "ok")
           /\ lastCall' = [op |-> op, result |-> n.result]
           /\ origin' = OriginAfter(themes', current_theme', EmptyDict)
    /\ UNCHANGED <<base_theme, observers, bindings, built, call>>

\* A setTheme that puts the previous theme back when a callback raises.
SetThemeAs_rollback(op, name) ==
    /\ instance' = "created"
    /\ themes' = NewThemes
    /\ IF ~HasKey(NewThemes, name)
       THEN /\ current_theme' = NewCurrent
            /\ lastCall' = [op |-> op, result |-> "KeyError"]
            /\ notified' = <<>>
            /\ UNCHANGED <<widgets, replaced, refreshFailed, origin>>
       ELSE \E n \in {notifyObservers(Lookup(NewThemes, name), observers,
                                     bindings, widgets)} :
                /\ current_theme' = IF n.result = "ok"
                                    THEN Lookup(NewThemes, name) ELSE NewCurrent
                /\ widgets' = n.widgets
                /\ notified' = n.notified
                /\ replaced' = replaced \ n.refreshed
                /\ refreshFailed' = (refreshFailed \/ n.result # "ok")
                /\ lastCall' = [op |-> op, result |-> n.result]
                /\ origin' = OriginAfter(themes', current_theme', EmptyDict)
    /\ UNCHANGED <<base_theme, observers, bindings, built, call>>

\* The part of setTheme(name) shared with incrementTheme: themes[name] raises
\* KeyError before anything is assigned; otherwise the theme becomes current
\* and the observers are notified.
SetThemeAs(op, name) ==
    /\ instance' = "created"
    /\ themes' = NewThemes
    /\ IF ~HasKey(NewThemes, name)
       THEN /\ current_theme' = NewCurrent
            /\ lastCall' = [op |-> op, result |-> "KeyError"]
            /\ notified' = <<>>
            /\ UNCHANGED <<widgets, replaced, refreshFailed, origin>>
       ELSE \E n \in {notifyObservers(Lookup(NewThemes, name), observers,
                                     bindings, widgets)} :
                /\ current_theme' = Lookup(NewThemes, name)
                /\ widgets' = n.widgets
                /\ notified' = n.notified
                /\ replaced' = replaced \ n.refreshed
                /\ refreshFailed' = (refreshFailed \/ n.result # "ok")
                /\ lastCall' = [op |-> op, result |-> n.result]
                /\ origin' = OriginAfter(themes', current_theme', EmptyDict)
    /\ UNCHANGED <<base_theme, observers, bindings, built, call>>

setTheme(name) == SetThemeAs("setTheme", name)

\* An incrementTheme that starts at the first theme when none is current.
incrementTheme_fromFirst ==
    IF NewCurrent = NoTheme /\ NewThemes = <<>>
    THEN /\ instance' = "created"
         /\ themes' = NewThemes
         /\ current_theme' = NewCurrent
         /\ lastCall' = [op |-> "incrementTheme", result |-> "AttributeError"]
         /\ notified' = <<>>
         /\ UNCHANGED <<base_theme, observers, bindings, widgets, replaced,
                        refreshFailed, built, origin, call>>
    ELSE IF NewCurrent = NoTheme
    THEN SetThemeAs("incrementTheme", Keys(NewThemes)[1])
    ELSE LET names == Keys(NewThemes)
             current_index == CHOOSE i \in 1..Len(names) :
                                  names[i] = NewCurrent.name
             next_index == NextIndex(current_index, Len(names))
         IN  SetThemeAs("incrementTheme", names[next_index])

\* incrementTheme(): current_theme.name raises AttributeError when no theme
\* is current.
incrementTheme ==
    IF NewCurrent = NoTheme
    THEN /\ instance' = "created"
         /\ themes' = NewThemes
         /\ current_theme' = NewCurrent
         /\ lastCall' = [op |-> "incrementTheme", result |-> "AttributeError"]
         /\ notified' = <<>>
         /\ UNCHANGED <<base_theme, observers, bindings, widgets, replaced,
                        refreshFailed, built, origin, call>>
    ELSE LET names == Keys(NewThemes)
             current_index == CHOOSE i \in 1..Len(names) :
                                  names[i] = NewCurrent.name
             next_index == NextIndex(current_index, Len(names))
         IN  SetThemeAs("incrementTheme", names[next_index])

\* getCurrentTheme(): the attribute as it is, None included.
getCurrentTheme ==
    /\ instance' = "created"
    /\ themes' = NewThemes
    /\ current_theme' = NewCurrent
    /\ call' = [fn |-> "getCurrentTheme",
                ret |-> [ok |-> TRUE, val |-> NewCurrent, exc |-> "none"]]
    /\ lastCall' = [op |-> "getCurrentTheme", result |-> "ok"]
    /\ notified' = <<>>
    /\ UNCHANGED <<base_theme, observers, bindings, widgets, replaced,
                   refreshFailed, built, origin>>

----------------------------------------------------------------------------
(* The bindings. *)

\* A constructor that registers the callback and sets no style.
Themeable_noInitialStyle(style_sheet) ==
    /\ Len(bindings) < MaxBindings
    /\ instance' = "created"
    /\ themes' = NewThemes
    /\ current_theme' = NewCurrent
    /\ observers' = Append(observers, Len(bindings) + 1)
    /\ bindings' = Append(bindings, [style_sheet |-> style_sheet,
                                     widget |-> Len(widgets) + 1])
    /\ widgets' = Append(widgets, [styleSheet |-> <<>>, deleted |-> FALSE])
    /\ lastCall' = [op |-> "Themeable", result |-> "ok"]
    /\ notified' = <<>>
    /\ built' = built \cup {Len(bindings) + 1}
    /\ UNCHANGED <<base_theme, replaced, refreshFailed, origin, call>>

\* Themeable(widget, style_sheet) with a widget of its own: the callback is
\* registered first, the style is computed and set last.
Themeable(style_sheet) ==
    /\ Len(bindings) < MaxBindings
    /\ \E r \in {onThemeChange(NewCurrent,
                       Append(bindings, [style_sheet |-> style_sheet,
                                         widget |-> Len(widgets) + 1]),
                       Append(widgets, [styleSheet |-> <<>>, deleted |-> FALSE]),
                       Len(bindings) + 1)} :
           /\ instance' = "created"
           /\ themes' = NewThemes
           /\ current_theme' = NewCurrent
           /\ observers' = Append(observers, Len(bindings) + 1)
           /\ bindings' = Append(bindings, [style_sheet |-> style_sheet,
                                            widget |-> Len(widgets) + 1])
           /\ widgets' = r.widgets
           /\ lastCall' = [op |-> "Themeable", result |-> IF r.ok THEN "ok" ELSE r.exc]
           /\ notified' = <<>>
           /\ refreshFailed' = (refreshFailed \/ ~r.ok)
           /\ built' = IF r.ok THEN built \cup {Len(bindings) + 1} ELSE built
    /\ UNCHANGED <<base_theme, replaced, origin, call>>

\* A setThemeStyle that sets the widget's style at once.
setThemeStyle_applies(b, style_sheet) ==
    /\ bindings' = [bindings EXCEPT ![b].style_sheet = style_sheet]
    /\ \E r \in {onThemeChange(current_theme, bindings', widgets, b)} :
           /\ widgets' = r.widgets
           /\ refreshFailed' = (refreshFailed \/ ~r.ok)
           /\ lastCall' = [op |-> "setThemeStyle",
                           result |-> IF r.ok THEN "ok" ELSE r.exc]
    /\ replaced' = replaced \cup {b}
    /\ notified' = <<>>
    /\ UNCHANGED <<instance, base_theme, themes, current_theme, observers,
                   built, origin, call>>

\* onThemeChange() of binding b, called by the application itself.
refresh(b) ==
    /\ \E r \in {onThemeChange(current_theme, bindings, widgets, b)} :
           /\ widgets' = r.widgets
           /\ replaced' = IF r.ok THEN replaced \ {b} ELSE replaced
           /\ refreshFailed' = (refreshFailed \/ ~r.ok)
           /\ lastCall' = [op |-> "onThemeChange",
                           result |-> IF r.ok THEN "ok" ELSE r.exc]
    /\ notified' = <<>>
    /\ UNCHANGED <<instance, base_theme, themes, current_theme, observers,
                   bindings, built, origin, call>>

\* setThemeStyle(style_sheet) of binding b: the attribute only.
setThemeStyle(b, style_sheet) ==
    /\ bindings' = [bindings EXCEPT ![b].style_sheet = style_sheet]
    /\ replaced' = replaced \cup {b}
    /\ lastCall' = [op |-> "setThemeStyle", result |-> "ok"]
    /\ notified' = <<>>
    /\ UNCHANGED <<instance, base_theme, themes, current_theme, observers,
                   widgets, refreshFailed, built, origin, call>>

\* The toolkit deletes the widget of binding b; the binding and its callback
\* stay where they are.
deleteWidget(b) ==
    /\ ~widgets[bindings[b].widget].deleted
    /\ widgets' = [widgets EXCEPT ![bindings[b].widget].deleted = TRUE]
    /\ lastCall' = [op |-> "deleteWidget", result |-> "ok"]
    /\ notified' = <<>>
    /\ UNCHANGED <<instance, base_theme, themes, current_theme, observers,
                   bindings, replaced, refreshFailed, built, origin, call>>

\* The registry and the construction of bindings.
Next ==
    \/ \E o \in BaseObjs : addBase(o)
    \/ \E a \in ThemeArgs : addTheme(a[1], a[2])
    \/ \E n \in Names : setTheme(n)
    \/ incrementTheme
    \/ \E s \in StyleSheets : Themeable(s)

Spec == Init /\ [][Next]_vars

\* One base, and the application replaces the style sheets of bindings; the
\* runs in which no refresh fails, up to the first failure.
NextStyle ==
    \/ ~refreshFailed /\ addBase(Base_red)
    \/ ~refreshFailed /\ \E a \in ThemeArgs : addTheme(a[1], a[2])
    \/ ~refreshFailed /\ \E n \in Names : setTheme(n)
    \/ ~refreshFailed /\ incrementTheme
    \/ ~refreshFailed /\ \E s \in StyleSheets : Themeable(s)
    \/ ~refreshFailed /\ \E b \in 1..Len(bindings), s \in StyleSheets :
                             setThemeStyle(b, s)
    \/ ~refreshFailed /\ \E b \in 1..Len(bindings) : refresh(b)

SpecStyle == Init /\ [][NextStyle]_vars

\* The first, and the toolkit deletes widgets.
NextWidget ==
    \/ \E o \in BaseObjs : addBase(o)
    \/ \E a \in ThemeArgs : addTheme(a[1], a[2])
    \/ \E n \in Names : setTheme(n)
    \/ incrementTheme
    \/ \E s \in StyleSheets : Themeable(s)
    \/ \E b \in 1..Len(bindings) : deleteWidget(b)

SpecWidget == Init /\ [][NextWidget]_vars

\* Three themes under one base, for the order incrementTheme goes through.
NextCycle ==
    \/ addBase(Base_red)
    \/ \E a \in CycleArgs : addTheme(a[1], a[2])
    \/ \E n \in CycleNames : setTheme(n)
    \/ incrementTheme
    \/ \E s \in StyleSheets : Themeable(s)

SpecCycle == Init /\ [][NextCycle]_vars

\* One base under which the style sheet with a modifier does not resolve
\* against every theme.
NextOneBase ==
    \/ addBase(Base_red)
    \/ \E a \in ThemeArgs : addTheme(a[1], a[2])
    \/ \E n \in Names : setTheme(n)
    \/ incrementTheme
    \/ \E s \in StyleSheets : Themeable(s)

SpecOneBase == Init /\ [][NextOneBase]_vars

\* The registry alone, and the application asks for the current theme.
NextQuery ==
    \/ \E o \in BaseObjs : addBase(o)
    \/ \E a \in ThemeArgs : addTheme(a[1], a[2])
    \/ \E n \in Names : setTheme(n)
    \/ incrementTheme
    \/ getCurrentTheme

SpecQuery == Init /\ [][NextQuery]_vars

----------------------------------------------------------------------------
(* The colour functions, called on their own. *)

\* The variables of the registry and the bindings.
registryVars == <<instance, base_theme, themes, current_theme, observers,
                  bindings, widgets, lastCall, notified, replaced,
                  refreshFailed, built, origin>>

\* Two-character groups: low and high values, either case.
ChannelGroups == {<<"0", "0">>, <<"0", "a">>, <<"7", "f">>, <<"f", "f">>,
                  <<"F", "F">>, <<"1", "A">>}

\* Strings of six hexadecimal digits, with and without the '#'.
SixDigitColors ==
    {p \o r \o g \o b : p \in {<<>>, <<"#">>},
                        r \in ChannelGroups, g \in ChannelGroups,
                        b \in ChannelGroups}

\* Strings that are not six hexadecimal digits after at most one '#'.
OtherStrings ==
    {<<>>, <<"#">>, Str_red,
     <<"#", "f", "f", "f", "f">>,
     <<"#", "f", "f", "f", "f", "f">>,
     <<"f", "f", "f", "f", "f">>,
     <<"#", "f", "f", "f", "f", "f", "f", "f">>,
     <<"#", "#", "f", "f", "f", "f", "f", "f">>,
     <<"#", "g", "g", "g", "g", "g", "g">>,
     <<"#", "f", "f", "f", "f", "f", "g">>,
     <<"#", "-", "f", "-", "f", "-", "f">>,
     <<"#", " ", "f", "+", "f", "f", " ">>}

ColorInputs == SixDigitColors \cup OtherStrings

Factors == {0, 500, 1000, 1001, 1500, 2000}

\* Nothing returned yet.
NoReturn == [ok |-> FALSE, val |-> <<>>, exc |-> "not called"]

InitColor ==
    /\ RegistryInit
    /\ call \in {[fn |-> "none", hex_color |-> c, factor |-> f, ret |-> NoReturn] :
                     c \in ColorInputs, f \in Factors}

\* hex_to_rgb(hex_color) is called.
Call_hex_to_rgb ==
    /\ call.fn = "none"
    /\ call' = [call EXCEPT !.fn = "hex_to_rgb",
                            !.ret = hex_to_rgb(call.hex_color)]
    /\ UNCHANGED registryVars

\* modifyColor(hex_color, factor) is called.
Call_modifyColor ==
    /\ call.fn = "none"
    /\ call' = [call EXCEPT !.fn = "modifyColor",
                            !.ret = modifyColor(call.hex_color, call.factor)]
    /\ UNCHANGED registryVars

NextColor ==
    \/ Call_hex_to_rgb
    \/ Call_modifyColor

SpecColor == InitColor /\ [][NextColor]_vars

----------------------------------------------------------------------------
(* _replacePlaceholders, called on style sheets put together from pieces. *)

\* Pieces of a style sheet put together in one run.
MaxPieces == 3

Key_x     == <<"x">>
Key_theme == <<"t", "h", "e", "m", "e">>
Str_abc   == <<"#", "a", "b", "c", "d", "e", "f">>

\* The theme the style sheets are resolved against: the value of x reads
\* like a placeholder itself.
ResolveTheme ==
    Theme(1, "probe", [k \in {Key_bg, Key_x, Key_theme} |->
                          CASE k = Key_bg -> Str_grey
                            [] k = Key_x -> Str_theme_dot \o Key_bg
                            [] OTHER -> Str_abc])

Piece_bg      == Str_theme_dot \o Key_bg
Piece_mod     == Str_theme_dot \o Key_bg \o <<"[", "5", "0", "0", "]">>
Piece_badmod  == Str_theme_dot \o Key_bg \o <<"[", "x", "]">>
Piece_nested  == Str_theme_dot \o Key_theme \o <<".", "x">>
Piece_x       == Str_theme_dot \o Key_x
Piece_open    == Str_theme_dot
Piece_bracket == <<"[", "5", "0", "0", "]">>
Piece_text    == <<"a", ":">>
Piece_semi    == <<";">>

Pieces == {Piece_bg, Piece_mod, Piece_badmod, Piece_nested, Piece_x,
           Piece_open, Piece_bracket, Piece_text, Piece_semi}

\* The style sheets of at most n pieces.
RECURSIVE SheetsOf(_)
SheetsOf(n) ==
    IF n = 0 THEN {<<>>}
    ELSE LET r == SheetsOf(n - 1) IN r \cup {p \o t : p \in Pieces, t \in r}

ResolveInputs == SheetsOf(MaxPieces)

InitResolve ==
    /\ RegistryInit
    /\ call \in {[fn |-> "none", style_sheet |-> t, ret |-> NoReturn] :
                     t \in ResolveInputs}

\* _replacePlaceholders() of a binding with that style sheet is called.
Call_replacePlaceholders ==
    /\ call.fn = "none"
    /\ call' = [call EXCEPT !.fn = "_replacePlaceholders",
                            !.ret = replacePlaceholders(ResolveTheme,
                                                        call.style_sheet)]
    /\ UNCHANGED registryVars

NextResolve == Call_replacePlaceholders

SpecResolve == InitResolve /\ [][NextResolve]_vars

----------------------------------------------------------------------------
(* Properties. *)

\* The style the widget of binding b should show under the current theme.
StyleOf(b) == getThemeStyle(current_theme, bindings[b].style_sheet)

\* The style sheet the widget of binding b has.
Shown(b) == widgets[bindings[b].widget].styleSheet

\* C1: when setTheme(name) on a registered name returns normally, the
\* callbacks invoked during the call are exactly the registered ones, each
\* once and in registration order, and the widget of each binding shows its
\* style sheet resolved against the theme that is now current.
C1_SetThemeRefreshesAll ==
    (lastCall.op = "setTheme" /\ lastCall.result = "ok") =>
        /\ notified = observers
        /\ \A i \in 1..Len(observers) :
               /\ StyleOf(observers[i]).ok
               /\ Shown(observers[i]) = StyleOf(observers[i]).val

C1_Witness ==
    /\ lastCall.op = "setTheme" /\ lastCall.result = "ok"
    /\ Len(observers) = 2
    /\ current_theme.name = "dark"
    /\ bindings[1].style_sheet = Sheet_bg
    /\ bindings[2].style_sheet = Sheet_fgmod
    /\ Shown(1) = <<"c", ":">> \o Str_black
    /\ Shown(2) = <<"#", "7", "f", "7", "f", "7", "f">>

\* C2: a Themeable built while no theme is current fails, and a construction
\* that fails leaves the observer list as it was: the callbacks registered
\* are those of the bindings that were built.
C2_FailedConstructionNotRegistered ==
    /\ (lastCall.op = "Themeable" /\ current_theme = NoTheme) =>
           lastCall.result = "No Theme set"
    /\ \A i \in 1..Len(observers) : observers[i] \in built

\* C3: the current theme, when set, is one of the values of themes: some
\* entry holds a Theme of that name with those attributes.
C3_CurrentThemeIsRegistered ==
    current_theme # NoTheme =>
        \E i \in 1..Len(themes) :
            /\ themes[i].value.name = current_theme.name
            /\ themes[i].value.theme_obj = current_theme.theme_obj

\* C4: while no base has ever been set, addTheme succeeds, and the theme it
\* stored resolves, once current, every key of its argument to the
\* argument's value and every other key to "#000000".
C4_AddThemeWithoutBase ==
    ~base_theme.set =>
        /\ (lastCall.op = "addTheme" => lastCall.result = "ok")
        /\ (current_theme # NoTheme =>
               \A k \in ProbeKeys :
                   getAttrOf(current_theme, k, NoModifier).val =
                       DictGet(origin[<<current_theme.name, current_theme.id>>].arg,
                               k, Str_black))

\* C5: setTheme(name) with a name that is not a key of themes raises, and
\* leaves the current theme, the themes and every widget as they were; no
\* callback is invoked.
C5_UnknownThemeChangesNothing ==
    [][\A n \in Names :
          (~HasKey(themes, n) /\ setTheme(n)) =>
              /\ lastCall'.result # "ok"
              /\ current_theme' = current_theme
              /\ themes' = themes
              /\ widgets' = widgets
              /\ notified' = <<>>]_vars

C5_Witness ==
    /\ lastCall = [op |-> "setTheme", result |-> "KeyError"]
    /\ current_theme # NoTheme
    /\ Len(observers) = 2
    /\ Shown(1) # <<>>

\* C6: the callbacks invoked by a notification belong to bindings whose
\* widget still exists (said of the bindings that were built).
C6_NoCallbackAfterDelete ==
    \A i \in 1..Len(notified) :
        notified[i] \in built => ~widgets[bindings[notified[i]].widget].deleted

\* C7: as long as no refresh has failed, the widget of every binding whose
\* style sheet was not replaced since its last refresh shows that style sheet
\* resolved against the current theme.
C7_WidgetsFollowTheme ==
    ~refreshFailed =>
        \A b \in 1..Len(bindings) :
            b \notin replaced =>
                /\ StyleOf(b).ok
                /\ Shown(b) = StyleOf(b).val

C7_Witness ==
    /\ ~refreshFailed
    /\ lastCall.op = "incrementTheme"
    /\ Len(bindings) = 2
    /\ replaced = {}
    /\ bindings[1].style_sheet = Sheet_fgmod
    /\ Shown(1) = <<"#", "7", "f", "7", "f", "7", "f">>
    /\ bindings[2].style_sheet = Sheet_bg
    /\ Shown(2) = <<"c", ":">> \o Str_black

\* What origin records for the current theme.
CurrentOrigin == origin[<<current_theme.name, current_theme.id>>]

\* C8: with a theme current that was added over a base, getAttr(k) is the
\* value the theme's own argument gives k, else the value the base of that
\* moment gives k, else "#000000".
C8_OverlayPrecedence ==
    current_theme # NoTheme =>
        \A k \in ProbeKeys :
            getAttrOf(current_theme, k, NoModifier) =
                [ok |-> TRUE, exc |-> "none",
                 val |-> IF k \in DOMAIN CurrentOrigin.arg
                         THEN CurrentOrigin.arg[k]
                         ELSE IF k \in DOMAIN CurrentOrigin.base
                         THEN CurrentOrigin.base[k]
                         ELSE Str_black]

C8_Witness ==
    /\ current_theme # NoTheme
    /\ CurrentOrigin.arg = Obj_bg
    /\ CurrentOrigin.base = Base_full
    /\ getAttrOf(current_theme, Key_bg, NoModifier).val = Str_grey
    /\ getAttrOf(current_theme, Key_fg, NoModifier).val = Str_grey
    /\ getAttrOf(current_theme, Key_zz, NoModifier).val = Str_black

\* The entries of themes' that are not entries of themes.
NewEntries == {i \in 1..Len(themes') : i > Len(themes) \/ themes'[i] # themes[i]}

\* C9: addBase changes the base only: themes, current theme, observers,
\* bindings and widgets stay, no callback is invoked.  Theme objects do not
\* change: only addTheme touches themes, it leaves every entry but the one it
\* writes, whose attributes are those of the base of that moment under the
\* argument; the current theme changes only by being set.
C9_BaseAndThemesFrame ==
    [][/\ lastCall'.op = "addBase" =>
              /\ themes' = themes
              /\ current_theme' = current_theme
              /\ observers' = observers
              /\ bindings' = bindings
              /\ widgets' = widgets
              /\ notified' = <<>>
       /\ lastCall'.op # "addTheme" => themes' = themes
       /\ lastCall'.op \notin {"setTheme", "incrementTheme"} =>
              current_theme' = current_theme
       /\ lastCall'.op = "addTheme" =>
              /\ Len(themes') >= Len(themes)
              /\ Cardinality(NewEntries) <= 1
              /\ \A i \in NewEntries :
                     LET t == themes'[i].value
                         o == origin'[<<t.name, t.id>>]
                     IN  /\ o.base = base_theme.theme_obj
                         /\ t.theme_obj = [k \in DOMAIN o.base \cup DOMAIN o.arg |->
                                IF k \in DOMAIN o.arg THEN o.arg[k] ELSE o.base[k]]
      ]_vars

C9_Witness ==
    /\ lastCall.op = "addBase"
    /\ base_theme.theme_obj = Base_red
    /\ Len(themes) = 2
    /\ \A i \in 1..2 :
           origin[<<themes[i].value.name, themes[i].value.id>>].base = Base_full
    /\ current_theme # NoTheme
    /\ Len(observers) = 2
    /\ Shown(2) = <<"#", "1", "1", "1", "1", "1", "1">>

\* The Theme that follows the current one in the insertion order of themes,
\* the first after the last.
Following ==
    LET i == CHOOSE j \in 1..Len(themes) : themes[j].key = current_theme.name
    IN  themes[IF i = Len(themes) THEN 1 ELSE i + 1].value

\* The index reached from index i of n by k calls of incrementTheme.
RECURSIVE IndexAfter(_, _, _)
IndexAfter(i, n, k) == IF k = 0 THEN i ELSE IndexAfter(NextIndex(i, n), n, k - 1)

\* With n themes, n calls of incrementTheme lead back to where they began.
CycleCloses ==
    \A i \in 1..Len(themes) : IndexAfter(i, Len(themes), Len(themes)) = i

\* notified is the beginning of the observer list.
NotifiedInOrder(ns, obs) ==
    /\ Len(ns) <= Len(obs)
    /\ \A i \in 1..Len(ns) : ns[i] = obs[i]

\* Every callback registered is that of a binding that was built.
AllBuilt == \A i \in 1..Len(observers) : observers[i] \in built

\* C10, as claimed: with a theme current, incrementTheme makes the following
\* theme current, the first after the last, and invokes every callback once;
\* n calls over n themes come back to the theme they began with.  (The
\* callbacks are counted where every registered binding was built.)
C10_NextThemeNotifiesAll ==
    [][/\ CycleCloses
       /\ (lastCall'.op = "incrementTheme" /\ current_theme # NoTheme) =>
              /\ current_theme' = Following
              /\ AllBuilt => notified' = observers]_vars

\* C10, amended: the callbacks are invoked in registration order, each once,
\* up to the first that raises; all of them when none raises.
C10_NextThemeNotifiesInOrder ==
    [][/\ CycleCloses
       /\ (lastCall'.op = "incrementTheme" /\ current_theme # NoTheme) =>
              /\ current_theme' = Following
              /\ NotifiedInOrder(notified', observers)
              /\ lastCall'.result = "ok" => notified' = observers
              /\ lastCall'.result # "ok" => notified' # <<>>]_vars

C10_Witness ==
    /\ lastCall = [op |-> "incrementTheme", result |-> "ok"]
    /\ Keys(themes) = <<"dark", "light", "solarized">>
    /\ current_theme.name = "dark"
    /\ notified = <<1, 2>>
    /\ Shown(1) = <<"c", ":">> \o Str_grey

\* C11: incrementTheme fails when no theme is current, which is the case
\* whenever themes is empty; the current theme stays unset, themes and the
\* widgets stay as they are and no callback is invoked.
C11_NextThemeWithoutCurrent ==
    [][/\ (themes = <<>>) => (current_theme = NoTheme)
       /\ (current_theme = NoTheme /\ lastCall'.op = "incrementTheme") =>
              /\ lastCall'.result # "ok"
              /\ current_theme' = NoTheme
              /\ themes' = themes
              /\ widgets' = widgets
              /\ observers' = observers
              /\ notified' = <<>>]_vars

C11_Witness ==
    /\ lastCall = [op |-> "incrementTheme", result |-> "AttributeError"]
    /\ current_theme = NoTheme
    /\ Len(themes) = 2
    /\ Len(observers) = 2

\* The modifiers a call or a placeholder gives, 0 among them.
Modifiers == {0, 500}

\* An optional '#', then six hexadecimal digits.
WellFormedColor(s) ==
    LET h == IF s # <<>> /\ Head(s) = "#" THEN Tail(s) ELSE s
    IN  Len(h) = 6 /\ \A i \in 1..6 : IsHexChar(h[i])

\* '#', then six lowercase hexadecimal digits.
CanonicalColor(s) ==
    /\ Len(s) = 7 /\ s[1] = "#"
    /\ \A i \in 2..7 : \E j \in 1..16 : HexDigits[j] = s[i]

\* C12: with a theme current, getAttr(key, m) with a modifier m, 0 included,
\* is modifyColor's darkening of the stored or default colour v: a canonical
\* colour when v is well formed, an exception when it is not; without a
\* modifier it is v as stored.
C12_ModifierAlwaysDarkens ==
    current_theme # NoTheme =>
        \A k \in ProbeKeys :
            LET v == DictGet(current_theme.theme_obj, k, Str_black)
            IN  /\ getAttrOf(current_theme, k, NoModifier) =
                       [ok |-> TRUE, val |-> v, exc |-> "none"]
                /\ \A m \in Modifiers :
                       LET r == getAttrOf(current_theme, k, m)
                       IN  IF WellFormedColor(v)
                           THEN r = modifyColor(v, m) /\ CanonicalColor(r.val)
                           ELSE ~r.ok

\* C13: getCurrentTheme raises as long as no theme is current, and returns
\* the current theme, the one the last setTheme or incrementTheme selected,
\* once there is one.
C13_GetCurrentThemeOrFailure ==
    [][lastCall'.op = "getCurrentTheme" =>
          IF current_theme = NoTheme
          THEN ~call'.ret.ok
          ELSE call'.ret.ok /\ call'.ret.val = current_theme]_vars

\* C14: setThemeStyle replaces the style sheet one binding stores and nothing
\* else: widgets, themes, current theme, base and observers stay and no
\* callback is invoked.  The widget of a binding whose style sheet was
\* replaced keeps its style until a notification or an onThemeChange call
\* refreshes it, and then shows the new style sheet resolved against the
\* theme current at that moment.
C14_SetThemeStyleTakesEffectLater ==
    [][/\ lastCall'.op = "setThemeStyle" =>
              /\ widgets' = widgets
              /\ themes' = themes
              /\ current_theme' = current_theme
              /\ base_theme' = base_theme
              /\ observers' = observers
              /\ notified' = <<>>
              /\ \E b \in 1..Len(bindings) :
                     bindings' = [bindings EXCEPT
                                     ![b].style_sheet = bindings'[b].style_sheet]
       /\ \A b \in replaced :
              IF b \in replaced'
              THEN widgets'[bindings'[b].widget] = widgets[bindings[b].widget]
              ELSE /\ lastCall'.op \in {"setTheme", "incrementTheme", "onThemeChange"}
                   /\ getThemeStyle(current_theme', bindings'[b].style_sheet).ok
                   /\ widgets'[bindings'[b].widget].styleSheet =
                          getThemeStyle(current_theme', bindings'[b].style_sheet).val
      ]_vars

C14_Witness ==
    /\ lastCall = [op |-> "onThemeChange", result |-> "ok"]
    /\ current_theme.name = "dark"
    /\ replaced = {2}
    /\ bindings[1].style_sheet = Sheet_fgmod
    /\ Shown(1) = <<"#", "7", "f", "7", "f", "7", "f">>
    /\ bindings[2].style_sheet = Sheet_bg
    /\ Shown(2) = <<"#", "7", "f", "7", "f", "7", "f">>

\* The lowercase of a hexadecimal digit.
LowerHex(ch) == IF IsHexChar(ch) THEN HexDigits[HexValue(ch) + 1] ELSE ch

\* A well-formed colour in lowercase with its '#'.
NormalizedColor(s) ==
    LET h == IF s # <<>> /\ Head(s) = "#" THEN Tail(s) ELSE s
    IN  <<"#">> \o [i \in 1..Len(h) |-> LowerHex(h[i])]

\* C15, as claimed: for a well-formed colour c, modifyColor(c, 0) is c,
\* modifyColor(c, 1000) is "#000000", and a factor above 1000 gives what 1000
\* gives; every result is a colour with channels in 0..255.
C15_DarkenBoundaries ==
    (call.fn = "modifyColor" /\ WellFormedColor(call.hex_color)) =>
        /\ call.ret.ok
        /\ CanonicalColor(call.ret.val)
        /\ call.factor = 0 => call.ret.val = call.hex_color
        /\ call.factor >= 1000 => call.ret.val = Str_black

\* C15, amended: modifyColor(c, 0) is c in lowercase with its '#', which is
\* c itself when c is written that way.
C15_DarkenBoundariesNormalized ==
    (call.fn = "modifyColor" /\ WellFormedColor(call.hex_color)) =>
        /\ call.ret.ok
        /\ CanonicalColor(call.ret.val)
        /\ call.factor = 0 => call.ret.val = NormalizedColor(call.hex_color)
        /\ (call.factor = 0 /\ CanonicalColor(call.hex_color)) =>
               call.ret.val = call.hex_color
        /\ call.factor >= 1000 => call.ret.val = Str_black

C15_Witness ==
    /\ call.fn = "modifyColor"
    /\ call.factor = 1500
    /\ call.hex_color = <<"#", "7", "f", "F", "F", "0", "a">>
    /\ call.ret.val = Str_black

\* C16: hex_to_rgb returns for a string of six hexadecimal digits after at
\* most one '#' and raises for every other string; so does modifyColor.
C16_DecodeRejectsMalformed ==
    call.fn \in {"hex_to_rgb", "modifyColor"} =>
        (call.ret.ok <=> WellFormedColor(call.hex_color))

\* A value that was returned.
Returned(v) == [ok |-> TRUE, val |-> v, exc |-> "none"]

\* Somewhere in s, "theme." is followed by a word character.
HasPlaceholder(s) ==
    \E i \in 1..Len(s) :
        /\ i + 6 <= Len(s)
        /\ SubSeq(s, i, i + 5) = Str_theme_dot
        /\ IsWordChar(s[i + 6])

\* Style sheets and what they resolve to against ResolveTheme.
ResolveCases ==
    {<<Piece_bg, Str_grey>>,
     <<Piece_mod, <<"#", "1", "1", "1", "1", "1", "1">>>>,
     <<Piece_badmod, Str_grey \o <<"[", "x", "]">>>>,
     <<Piece_nested, Str_abc \o <<".", "x">>>>,
     <<Piece_x, Str_theme_dot \o Key_bg>>,
     <<Piece_bg \o Piece_x, Str_black \o <<".", "x">>>>,
     <<Piece_bg \o Piece_bracket, <<"#", "1", "1", "1", "1", "1", "1">>>>,
     <<Piece_mod \o Piece_bracket,
       <<"#", "1", "1", "1", "1", "1", "1">> \o Piece_bracket>>,
     <<Piece_open \o Piece_bg, Str_abc \o <<".", "b", "g">>>>,
     <<Piece_text \o Piece_badmod \o Piece_nested,
       Piece_text \o Str_grey \o <<"[", "x", "]">> \o Str_abc \o <<".", "x">>>>,
     <<Piece_x \o Piece_semi \o Piece_bg,
       Str_theme_dot \o Key_bg \o Piece_semi \o Str_grey>>}

\* C17: _replacePlaceholders is one pass from left to right.  A style sheet
\* without a placeholder comes back as it is; what stands on either side of a
\* character that belongs to no match is resolved on its own and the
\* character stays between the two; a bracket that does not hold digits only
\* stays as text after the value; a value put in is not scanned again; and
\* theme.theme.x is the attribute theme followed by the text .x.
C17_SinglePassResolution ==
    call.fn = "_replacePlaceholders" =>
        /\ ~HasPlaceholder(call.style_sheet) =>
               call.ret = Returned(call.style_sheet)
        /\ \A e \in ResolveCases :
               call.style_sheet = e[1] => call.ret = Returned(e[2])
        /\ \A i \in 1..Len(call.style_sheet) :
               call.style_sheet[i] = ";" =>
                   call.ret =
                       Joined(replacePlaceholders(ResolveTheme,
                                  SubSeq(call.style_sheet, 1, i - 1)),
                              Joined(Returned(<<";">>),
                                     replacePlaceholders(ResolveTheme,
                                         SubSeq(call.style_sheet, i + 1,
                                                Len(call.style_sheet)))))

C17_Witness ==
    /\ call.fn = "_replacePlaceholders"
    /\ call.style_sheet = Piece_text \o Piece_badmod \o Piece_nested
    /\ call.ret.val = Piece_text \o Str_grey \o <<"[", "x", "]">>
                          \o Str_abc \o <<".", "x">>

\* The positions in the observer list of the bindings whose style sheet does
\* not resolve against theme t.
FailingUnder(t) ==
    {i \in 1..Len(observers) :
        ~getThemeStyle(t, bindings[observers[i]].style_sheet).ok}

\* The least element of a set of numbers that is not empty.
Least(S) == CHOOSE i \in S : \A j \in S : i <= j

\* C18: when the refresh of some binding fails during setTheme(name) on a
\* registered name, the call raises, the callbacks invoked are those up to
\* the first failing one and none after it, the theme of that name is
\* current all the same, the bindings before the failing one show the new
\* theme and the failing one and those after it keep the style they had.
C18_FailureStopsNotification ==
    [][\A n \in Names :
          (lastCall'.op = "setTheme" /\ HasKey(themes, n)) =>
              \A t \in {Lookup(themes, n)} :
              \A F \in {FailingUnder(t)} :
                  (F # {} /\ setTheme(n)) =>
                      \A f \in {Least(F)} :
                          /\ lastCall'.result \notin {"ok", "KeyError"}
                          /\ current_theme' = t
                          /\ notified' = SubSeq(observers, 1, f)
                          /\ \A i \in 1..(f - 1) :
                                 widgets'[bindings[observers[i]].widget].styleSheet =
                                     getThemeStyle(t,
                                         bindings[observers[i]].style_sheet).val
                          /\ \A i \in f..Len(observers) :
                                 widgets'[bindings[observers[i]].widget] =
                                     widgets[bindings[observers[i]].widget]]_vars

C18_Witness ==
    /\ lastCall = [op |-> "setTheme", result |-> "ValueError"]
    /\ current_theme.name = "light"
    /\ observers = <<1, 2>>
    /\ notified = <<1>>
    /\ bindings[2].style_sheet = Sheet_bg
    /\ Shown(2) = <<"c", ":">> \o Str_black
    /\ getAttrOf(current_theme, Key_bg, NoModifier).val = Str_grey

\* C19: there is one registry.  Once the instance exists ThemeProvider()
\* gives it back with its themes and its current theme as they are, so the
\* construction of a binding changes neither themes nor base nor current
\* theme; a construction that returns normally appends one callback to the
\* observer list, and no step takes a callback away.
C19_OneSharedRegistry ==
    [][/\ instance = "created" =>
              /\ instance' = "created"
              /\ NewThemes = themes
              /\ NewCurrent = current_theme
       /\ (instance = "created" /\ lastCall'.op = "Themeable") =>
              /\ themes' = themes
              /\ base_theme' = base_theme
              /\ current_theme' = current_theme
       /\ (lastCall'.op = "Themeable" /\ lastCall'.result = "ok") =>
              /\ Len(bindings') = Len(bindings) + 1
              /\ observers' = Append(observers, Len(bindings'))
       /\ Len(observers') >= Len(observers)
       /\ SubSeq(observers', 1, Len(observers)) = observers]_vars

C19_Witness ==
    /\ lastCall = [op |-> "Themeable", result |-> "ok"]
    /\ observers = <<1, 2>>
    /\ Len(themes) = 2
    /\ base_theme.theme_obj = Base_red
    /\ current_theme.name = "dark"
    /\ Shown(2) = <<"c", ":">> \o Str_black

\* The current theme is an object that themes no longer holds.
Replaced ==
    /\ current_theme # NoTheme
    /\ Lookup(themes, current_theme.name) # current_theme

\* C20: addTheme with a name that is already a key keeps the order of the
\* keys, leaves the current theme, the observers and the widgets as they are
\* and invokes no callback.  While the current theme is the object that was
\* replaced, getAttr answers from the attributes it was built with, and
\* incrementTheme goes to the theme that follows its name in themes.
C20_ReAddKeepsPlace ==
    [][/\ (/\ lastCall'.op = "addTheme" /\ lastCall'.result = "ok"
           /\ Len(themes') = Len(themes)) =>
              /\ Keys(themes') = Keys(themes)
              /\ current_theme' = current_theme
              /\ observers' = observers
              /\ widgets' = widgets
              /\ notified' = <<>>
       /\ Replaced =>
              \A k \in ProbeKeys :
                  getAttrOf(current_theme, k, NoModifier).val =
                      DictGet(CurrentOrigin.arg, k,
                              DictGet(CurrentOrigin.base, k, Str_black))
       /\ (Replaced /\ lastCall'.op = "incrementTheme") =>
              current_theme' = Following]_vars

C20_Witness ==
    /\ lastCall = [op |-> "addTheme", result |-> "ok"]
    /\ Keys(themes) = <<"light", "dark">>
    /\ current_theme.name = "light"
    /\ Replaced
    /\ Lookup(themes, "light").theme_obj[Key_fg] = Str_red
    /\ current_theme.theme_obj[Key_fg] = Str_grey
    /\ Len(observers) = 1
    /\ bindings[1].style_sheet = Sheet_fgmod
    /\ Shown(1) = <<"#", "1", "1", "1", "1", "1", "1">>

====
